---------------------------- MODULE Spec2Model ----------------------------
(***************************************************************************)
(* The debate orchestration engine of debate_agent: the LangGraph graph of *)
(* src/src/graph.py, the agent and phase-transition nodes of               *)
(* src/src/agents.py and the retry wrapper of src/src/utils.py.            *)
(*                                                                         *)
(* One run of the compiled graph is modelled.  The graph executes one node *)
(* at a time; `node` is the node the executor runs next.  An agent node    *)
(* calls the generation backend through retry_with_backoff; every attempt  *)
(* of that loop is one step of the model (the loop sleeps between          *)
(* attempts), and the attempt that succeeds completes the node: its        *)
(* update is merged into the graph state and the outgoing edge is taken.   *)
(* Delays are in whole seconds.                                            *)
(***************************************************************************)
EXTENDS Integers, Sequences, FiniteSets, TLC

\* DebateConfig.max_rounds: Field(ge=1, le=10)
MIN_ROUNDS == 1
MAX_ROUNDS == 10
\* DebateConfig.max_retries: Field(ge=1, le=5)
MIN_RETRIES == 1
MAX_RETRIES == 5
\* retry_with_backoff defaults, not overridden by invoke_agent
max_delay == 30
exponential_base == 2

\* DebateConfig.retry_delay (ge=0.1, le=10.0): the whole-second values checked
BaseDelays == {1, 3, 10}
\* the exceptions the generation backend may raise
Exceptions == {"e1", "e2"}
\* the texts the generation backend may return
Responses == {"r1", "r2"}
\* what extract_winner_from_text(...) or "tie" can evaluate to
\* the debate proposition
Topics == {"X should happen"}

Winners == {"proponent", "opposition", "tie"}
\* what extract_confidence_from_text(...) or "medium" can evaluate to
Confidences == {"high", "medium", "low"}

\* cap on the transcript length explored (a correct run needs 2*MAX_ROUNDS+5)
MaxHistory == 30

END == "__end__"
AgentNodes == {"proponent", "opposition", "judge"}
TransitionNodes == {"start_rebuttal", "next_round", "start_closing"}

\* Python's None for the optional verdict; Some(v) is a set verdict
None == <<>>
Some(v) == <<v>>

VARIABLES
    topic,           \* GraphState["topic"]
    max_rounds,      \* GraphState["max_rounds"]
    max_retries,     \* config.max_retries
    retry_delay,     \* config.retry_delay (base_delay of the wrapper)
    current_phase,   \* GraphState["current_phase"]
    current_round,   \* GraphState["current_round"]
    history,         \* GraphState["history"]
    verdict,         \* GraphState["verdict"]
    node,            \* the node the executor runs next, END after the last edge
    status,          \* "running", "returned" (graph.invoke returned), "raised"
    error,           \* the exception graph.invoke raised, "None" if none
    attempt,         \* wrapper: loop variable of the call in progress
    last_exception,  \* wrapper: last_exception of the call in progress
    raw_response,    \* what the latest invoke_agent call returned
    call_attempts,   \* attempts made by the current / most recent call
    last_outcome,    \* outcome of the most recent generation attempt
    sleeps,          \* time.sleep calls of the current / most recent call
    prompt,          \* the prompt built by the current / most recent agent node
    events,          \* what stream_debate has yielded to its caller so far
    final_state,     \* what run_debate has returned to its caller, None before
    active,          \* the nodes the executor has scheduled for the next step
    trace,           \* the steps of the executor: node run, state left, node chosen
    entry,           \* the entry point that starts the run
    api_key,         \* OPENROUTER_API_KEY as the settings object holds it
    arg_max_rounds,  \* the max_rounds argument of the entry point
    cfg_max_rounds,  \* max_rounds of the config before the override
    debate_in_progress,  \* st.session_state.debate_in_progress of the viewer
    text_stage,      \* post-processing: what has been applied to the text
    text_in,         \* post-processing: the input of the latest transform
    text_out,        \* post-processing: the text after the latest transform
    text_k,          \* post-processing: max_words of the latest truncation
    extracted        \* verdict extraction: the winner and confidence found

config_vars == <<topic, max_rounds, max_retries, retry_delay>>
graph_vars == <<current_phase, current_round, history, verdict>>
call_vars == <<attempt, last_exception, raw_response, call_attempts, last_outcome, sleeps,
               prompt>>
driver_vars == <<events, final_state, active, trace>>
start_vars == <<entry, api_key, arg_max_rounds, cfg_max_rounds>>
text_vars == <<text_stage, text_in, text_out, text_k, extracted>>
vars == <<topic, max_rounds, max_retries, retry_delay, current_phase, current_round,
          history, verdict, node, status, error, attempt, last_exception,
          raw_response, call_attempts, last_outcome, sleeps, prompt, events,
          final_state, active, trace, entry, api_key, arg_max_rounds,
          cfg_max_rounds, debate_in_progress,
          text_stage, text_in, text_out, text_k, extracted>>

Min(a, b) == IF a <= b THEN a ELSE b

-----------------------------------------------------------------------------
(* Data model *)

DebateTurn(role, phase, round_number) ==
    [role |-> role, phase |-> phase, round_number |-> round_number]

\* a reducer that overwrites instead of appending
history_add_overwrite(existing, new) == new

\* the reducer of GraphState.history (operator.add)
history_add(existing, new) == existing \o new

JudgeVerdict(winner, confidence) == [winner |-> winner, confidence |-> confidence]

NoOutcome == [kind |-> "none", val |-> "none"]
Returned(r) == [kind |-> "ok", val |-> r]
Raised(e) == [kind |-> "exc", val |-> e]

-----------------------------------------------------------------------------
(* Graph edges *)

\* the round test off by one: > for >=
route_after_opposition_strict(phase, round, maxr) ==
    IF phase = "opening" THEN "start_rebuttal"
    ELSE IF phase = "rebuttal"
         THEN (IF round > maxr THEN "start_closing" ELSE "next_round")
    ELSE IF phase = "closing" THEN "judge"
    ELSE END

\* the last rebuttal round followed by the judge, the closing phase skipped
route_after_opposition_skips_closing(phase, round, maxr) ==
    IF phase = "opening" THEN "start_rebuttal"
    ELSE IF phase = "rebuttal"
         THEN (IF round >= maxr THEN "judge" ELSE "next_round")
    ELSE IF phase = "closing" THEN "judge"
    ELSE END

route_after_opposition(phase, round, maxr) ==
    IF phase = "opening" THEN "start_rebuttal"
    ELSE IF phase = "rebuttal"
         THEN (IF round >= maxr THEN "start_closing" ELSE "next_round")
    ELSE IF phase = "closing" THEN "judge"
    ELSE END

\* start_closing wired to the opposition instead of the proponent
Edge_closing_to_opposition(n, phase, round, maxr) ==
    CASE n = "proponent" -> "opposition"
      [] n = "opposition" -> route_after_opposition(phase, round, maxr)
      [] n = "start_rebuttal" -> "proponent"
      [] n = "next_round" -> "proponent"
      [] n = "start_closing" -> "opposition"
      [] n = "judge" -> END

\* the judge wired back to the proponent instead of END
Edge_judge_continues(n, phase, round, maxr) ==
    CASE n = "proponent" -> "opposition"
      [] n = "opposition" -> route_after_opposition(phase, round, maxr)
      [] n = "start_rebuttal" -> "proponent"
      [] n = "next_round" -> "proponent"
      [] n = "start_closing" -> "proponent"
      [] n = "judge" -> "proponent"

\* next_round wired to the opposition instead of the proponent
Edge_next_round_to_opposition(n, phase, round, maxr) ==
    CASE n = "proponent" -> "opposition"
      [] n = "opposition" -> route_after_opposition(phase, round, maxr)
      [] n = "start_rebuttal" -> "proponent"
      [] n = "next_round" -> "opposition"
      [] n = "start_closing" -> "proponent"
      [] n = "judge" -> END

\* the edges create_debate_graph adds; phase and round are those of the state
\* after the node's update
Edge(n, phase, round, maxr) ==
    CASE n = "proponent" -> "opposition"
      [] n = "opposition" -> route_after_opposition(phase, round, maxr)
      [] n = "start_rebuttal" -> "proponent"
      [] n = "next_round" -> "proponent"
      [] n = "start_closing" -> "proponent"
      [] n = "judge" -> END

\* one more edge out of start_rebuttal: the graph fans out
Targets_fan_out(n, phase, round, maxr) ==
    IF n = "start_rebuttal" THEN {"proponent", "opposition"}
    ELSE {Edge(n, phase, round, maxr)}

\* every node has one add_edge or one conditional edge, which names one target
Targets(n, phase, round, maxr) == {Edge(n, phase, round, maxr)}

\* graph.invoke returns when the executor reaches END
StatusAfter(next) == IF next = END THEN "returned" ELSE "running"

\* the viewer's "finally: st.session_state.debate_in_progress = False", reached
\* when the stream ends or raises; no step of a run writes the flag otherwise
UiFinally == debate_in_progress' = (debate_in_progress /\ status' = "running")

-----------------------------------------------------------------------------
(* The two drivers.  run_debate and stream_debate build the same graph and the
   same initial state; for the same generation results they run the same
   nodes, so one run of the graph is seen through both: `events` is what
   stream_debate has yielded, `final_state` what run_debate has returned. *)

\* stream_mode="values": every event holds the whole history
StreamEvent_values(n, turns, full, v) == [node |-> n, history |-> full, verdict |-> v]

\* stream_mode="updates": the event is {node_name: node_output}
StreamEvent(n, turns, full, v) == [node |-> n, history |-> turns, verdict |-> v]

\* history[-1].role if history else None
last_role(h) == IF h = <<>> THEN "none" ELSE h[Len(h)].role

\* one step of the executor: the node that ran, the state it left and the
\* node the edges choose next
Step(ran, phase, round, h, next) ==
    [ran |-> ran, phase |-> phase, round |-> round, last_role |-> last_role(h),
     next |-> next]

\* the node's update reaches the callers and the executor schedules the targets
Observe(n, turns, v) ==
    /\ trace' = Append(trace, Step(n, current_phase', current_round', history', node'))
    /\ events' = Append(events, StreamEvent(n, turns, history', v))
    /\ final_state' = IF node' = END
                      THEN Some([history |-> history', verdict |-> verdict',
                                 current_phase |-> current_phase'])
                      ELSE final_state
    /\ active' = Targets(n, current_phase', current_round', max_rounds) \ {END}

-----------------------------------------------------------------------------
(* Output validation *)

\* the response "r1" holds every required header, "r2" lacks some
HasHeaders(r) == r = "r1"

\* validation called with strict=True
validate_strict_on == TRUE

\* validate_*_output leave strict at its default
validate_strict == FALSE

\* if strict and not is_valid: raise ValueError
ValidationRaises(r) == validate_strict /\ ~HasHeaders(r)

\* an exception raised in a node leaves the node and graph.invoke
NodeRaises(x) ==
    /\ status' = "raised"
    /\ error' = x
    /\ UNCHANGED <<graph_vars, node, driver_vars>>

-----------------------------------------------------------------------------
(* Prompt construction.  A prompt is described by the turns it includes: the
   opponent's turn it quotes, the speaker's own turns it previews, and for the
   judge the transcript; "full" is the whole content, "first200" content[:200]. *)

Quote(t, part) == [turn |-> t, part |-> part]

\* no agent node has built a prompt yet
NoPrompt == [quoted |-> None, own |-> <<>>, transcript |-> <<>>]

\* [t for t in history if t.role == role]
TurnsOf(h, role) == SelectSeq(h, LAMBDA t : t.role = role)

\* turns[-1] if turns, in full
LastInFull(turns) ==
    IF turns = <<>> THEN None ELSE Some(Quote(turns[Len(turns)], "full"))

\* the first 200 characters of each of turns[-2:]
LastTwoPreviewed(turns) ==
    LET from == IF Len(turns) > 2 THEN Len(turns) - 1 ELSE 1
    IN [i \in 1 .. Len(turns) - from + 1 |-> Quote(turns[from + i - 1], "first200")]

\* the proponent quoting the opposition's first turn, opp_turns[0]
build_proponent_prompt_stale(phase, round_number, h) ==
    [quoted |-> IF phase = "rebuttal" /\ TurnsOf(h, "opposition") # <<>>
                THEN Some(Quote(TurnsOf(h, "opposition")[1], "full"))
                ELSE None,
     own |-> IF h # <<>> /\ phase # "opening"
             THEN LastTwoPreviewed(TurnsOf(h, "proponent"))
             ELSE <<>>,
     transcript |-> <<>>]

\* the opposition's last argument is included in the rebuttal phase only
build_proponent_prompt(phase, round_number, h) ==
    [quoted |-> IF phase = "rebuttal"
                THEN LastInFull(TurnsOf(h, "opposition"))
                ELSE None,
     own |-> IF h # <<>> /\ phase # "opening"
             THEN LastTwoPreviewed(TurnsOf(h, "proponent"))
             ELSE <<>>,
     transcript |-> <<>>]

\* the proponent's last argument is included in every phase
build_opposition_prompt(phase, round_number, h) ==
    [quoted |-> LastInFull(TurnsOf(h, "proponent")),
     own |-> IF Len(h) > 1
             THEN LastTwoPreviewed(TurnsOf(h, "opposition"))
             ELSE <<>>,
     transcript |-> <<>>]

\* every turn of the history, in full, in order
build_judge_prompt(h) ==
    [quoted |-> None,
     own |-> <<>>,
     transcript |-> [i \in 1 .. Len(h) |-> Quote(h[i], "full")]]

\* the prompt the agent node n builds from the state it is invoked with
BuildPrompt(n) ==
    CASE n = "proponent" ->
            build_proponent_prompt(current_phase, current_round, history)
      [] n = "opposition" ->
            build_opposition_prompt(current_phase, current_round, history)
      [] n = "judge" -> build_judge_prompt(history)

-----------------------------------------------------------------------------
(* Retry wrapper *)

\* the cap forgotten
delay_uncapped(base_delay, a) == base_delay * exponential_base ^ a

\* delay = min(base_delay * (exponential_base ** attempt), max_delay)
delay(base_delay, a) == Min(base_delay * exponential_base ^ a, max_delay)

\* the budget off by one: gives up one attempt early
IsFinalAttempt_early(a) == a = max_retries - 1

\* if attempt == max_retries: raise
IsFinalAttempt(a) == a = max_retries

\* for attempt in range(max_retries + 1)
InLoop(a) == a \in 0 .. max_retries

\* the transcript lengths explored
WithinCap == Len(history) < MaxHistory

\* the sleeps of the call in progress (a new call starts with none)
SleepLog == IF attempt = 0 THEN <<>> ELSE sleeps

\* an attempt raises and is not the last one: sleep, then try again
AttemptFails(e) ==
    /\ status = "running"
    /\ node \in AgentNodes
    /\ WithinCap
    /\ InLoop(attempt)
    /\ ~IsFinalAttempt(attempt)
    /\ last_exception' = e
    /\ sleeps' = Append(SleepLog, [before |-> attempt + 1,
                                   delay |-> delay(retry_delay, attempt)])
    /\ attempt' = attempt + 1
    /\ call_attempts' = attempt + 1
    /\ last_outcome' = Raised(e)
    /\ prompt' = BuildPrompt(node)
    /\ UNCHANGED <<config_vars, start_vars, text_vars, driver_vars, graph_vars,
                   node, status, error, raw_response>>
    /\ UiFinally

\* the exception caught in the node, which goes on without a turn
RetriesExhausted_swallowed(e) ==
    /\ status = "running"
    /\ node \in AgentNodes
    /\ WithinCap
    /\ InLoop(attempt)
    /\ IsFinalAttempt(attempt)
    /\ last_exception' = "None"
    /\ attempt' = 0
    /\ error' = e
    /\ node' = Edge(node, current_phase, current_round, max_rounds)
    /\ status' = StatusAfter(node')
    /\ call_attempts' = attempt + 1
    /\ last_outcome' = Raised(e)
    /\ prompt' = BuildPrompt(node)
    /\ sleeps' = SleepLog
    /\ UNCHANGED <<config_vars, start_vars, text_vars, driver_vars, graph_vars,
                   raw_response>>
    /\ UiFinally

\* the last attempt raises: the exception leaves the wrapper, the node and
\* graph.invoke
RetriesExhausted(e) ==
    /\ status = "running"
    /\ node \in AgentNodes
    /\ WithinCap
    /\ InLoop(attempt)
    /\ IsFinalAttempt(attempt)
    /\ last_exception' = e
    /\ error' = e
    /\ status' = "raised"
    /\ call_attempts' = attempt + 1
    /\ last_outcome' = Raised(e)
    /\ prompt' = BuildPrompt(node)
    /\ sleeps' = SleepLog
    /\ UNCHANGED <<config_vars, start_vars, text_vars, driver_vars, graph_vars,
                   node, attempt, raw_response>>
    /\ UiFinally

\* the wrapper sleeping the backoff delay after the attempt that returned
CallReturns_sleeps_after(r) ==
    /\ InLoop(attempt)
    /\ raw_response' = r
    /\ call_attempts' = attempt + 1
    /\ last_outcome' = Returned(r)
    /\ sleeps' = Append(SleepLog, [before |-> attempt + 1,
                                   delay |-> delay(retry_delay, attempt)])
    /\ attempt' = 0
    /\ last_exception' = "None"
    /\ prompt' = BuildPrompt(node)

\* an attempt returns r: the wrapper returns it at once
CallReturns(r) ==
    /\ InLoop(attempt)
    /\ raw_response' = r
    /\ call_attempts' = attempt + 1
    /\ last_outcome' = Returned(r)
    /\ sleeps' = SleepLog
    /\ attempt' = 0
    /\ last_exception' = "None"
    /\ prompt' = BuildPrompt(node)

-----------------------------------------------------------------------------
(* Agent nodes *)

\* the proponent choosing its successor by the length of the transcript
ProponentNode_routes_on_length(r) ==
    /\ status = "running"
    /\ node = "proponent"
    /\ WithinCap
    /\ CallReturns(r)
    /\ IF ValidationRaises(r)
       THEN NodeRaises("ValueError")
       ELSE /\ history' = history_add(history,
                    <<DebateTurn("proponent", current_phase, current_round)>>)
            /\ node' = IF Len(history) >= 4 /\ current_phase = "rebuttal"
                       THEN "next_round" ELSE "opposition"
            /\ status' = StatusAfter(node')
            /\ UNCHANGED <<current_phase, current_round, verdict, error>>
            /\ Observe("proponent",
                    <<DebateTurn("proponent", current_phase, current_round)>>, None)
    /\ UNCHANGED <<config_vars, start_vars, text_vars>>
    /\ UiFinally

ProponentNode(r) ==
    /\ status = "running"
    /\ node = "proponent"
    /\ WithinCap
    /\ CallReturns(r)
    /\ IF ValidationRaises(r)
       THEN NodeRaises("ValueError")
       ELSE /\ history' = history_add(history,
                    <<DebateTurn("proponent", current_phase, current_round)>>)
            /\ node' = Edge("proponent", current_phase, current_round, max_rounds)
            /\ status' = StatusAfter(node')
            /\ UNCHANGED <<current_phase, current_round, verdict, error>>
            /\ Observe("proponent",
                    <<DebateTurn("proponent", current_phase, current_round)>>, None)
    /\ UNCHANGED <<config_vars, start_vars, text_vars>>
    /\ UiFinally

\* the opposition advancing the round itself
OppositionNode_advances_round(r) ==
    /\ status = "running"
    /\ node = "opposition"
    /\ WithinCap
    /\ CallReturns(r)
    /\ IF ValidationRaises(r)
       THEN NodeRaises("ValueError")
       ELSE /\ history' = history_add(history,
                    <<DebateTurn("opposition", current_phase, current_round)>>)
            /\ current_round' = IF current_phase = "rebuttal"
                                THEN Min(current_round + 1, max_rounds)
                                ELSE current_round
            /\ node' = Edge("opposition", current_phase, current_round, max_rounds)
            /\ status' = StatusAfter(node')
            /\ UNCHANGED <<current_phase, verdict, error>>
            /\ Observe("opposition",
                    <<DebateTurn("opposition", current_phase, current_round)>>, None)
    /\ UNCHANGED <<config_vars, start_vars, text_vars>>
    /\ UiFinally

OppositionNode(r) ==
    /\ status = "running"
    /\ node = "opposition"
    /\ WithinCap
    /\ CallReturns(r)
    /\ IF ValidationRaises(r)
       THEN NodeRaises("ValueError")
       ELSE /\ history' = history_add(history,
                    <<DebateTurn("opposition", current_phase, current_round)>>)
            /\ node' = Edge("opposition", current_phase, current_round, max_rounds)
            /\ status' = StatusAfter(node')
            /\ UNCHANGED <<current_phase, current_round, verdict, error>>
            /\ Observe("opposition",
                    <<DebateTurn("opposition", current_phase, current_round)>>, None)
    /\ UNCHANGED <<config_vars, start_vars, text_vars>>
    /\ UiFinally

\* the judge leaving current_phase at "verdict"
JudgeNode_phase_verdict(r, winner, confidence) ==
    /\ status = "running"
    /\ node = "judge"
    /\ WithinCap
    /\ CallReturns(r)
    /\ IF ValidationRaises(r)
       THEN NodeRaises("ValueError")
       ELSE /\ history' = history_add(history, <<DebateTurn("judge", "verdict", 0)>>)
            /\ current_phase' = "verdict"
            /\ verdict' = Some(JudgeVerdict(winner, confidence))
            /\ node' = Edge("judge", current_phase', current_round, max_rounds)
            /\ status' = StatusAfter(node')
            /\ UNCHANGED <<current_round, error>>
            /\ Observe("judge", <<DebateTurn("judge", "verdict", 0)>>, verdict')
    /\ UNCHANGED <<config_vars, start_vars, text_vars>>
    /\ UiFinally

JudgeNode(r, winner, confidence) ==
    /\ status = "running"
    /\ node = "judge"
    /\ WithinCap
    /\ CallReturns(r)
    /\ IF ValidationRaises(r)
       THEN NodeRaises("ValueError")
       ELSE /\ history' = history_add(history, <<DebateTurn("judge", "verdict", 0)>>)
            /\ current_phase' = "complete"
            /\ verdict' = Some(JudgeVerdict(winner, confidence))
            /\ node' = Edge("judge", current_phase', current_round, max_rounds)
            /\ status' = StatusAfter(node')
            /\ UNCHANGED <<current_round, error>>
            /\ Observe("judge", <<DebateTurn("judge", "verdict", 0)>>, verdict')
    /\ UNCHANGED <<config_vars, start_vars, text_vars>>
    /\ UiFinally

-----------------------------------------------------------------------------
(* Phase transition nodes *)

\* the rebuttal phase entered without setting the round to 1
StartRebuttalNode_round_kept ==
    /\ status = "running"
    /\ node = "start_rebuttal"
    /\ current_phase' = "rebuttal"
    /\ current_round' = current_round
    /\ node' = Edge("start_rebuttal", current_phase', current_round', max_rounds)
    /\ status' = StatusAfter(node')
    /\ UNCHANGED <<config_vars, start_vars, text_vars, history, verdict, error,
                   call_vars>>
    /\ Observe("start_rebuttal", <<>>, None)
    /\ UiFinally

StartRebuttalNode ==
    /\ status = "running"
    /\ node = "start_rebuttal"
    /\ current_phase' = "rebuttal"
    /\ current_round' = 1
    /\ node' = Edge("start_rebuttal", current_phase', current_round', max_rounds)
    /\ status' = StatusAfter(node')
    /\ UNCHANGED <<config_vars, start_vars, text_vars, history, verdict, error,
                   call_vars>>
    /\ Observe("start_rebuttal", <<>>, None)
    /\ UiFinally

\* the round counter not incremented
NextRoundNode_no_increment ==
    /\ status = "running"
    /\ node = "next_round"
    /\ current_round' = current_round
    /\ node' = Edge("next_round", current_phase, current_round', max_rounds)
    /\ status' = StatusAfter(node')
    /\ UNCHANGED <<config_vars, start_vars, text_vars, current_phase, history,
                   verdict, error, call_vars>>
    /\ Observe("next_round", <<>>, None)
    /\ UiFinally

NextRoundNode ==
    /\ status = "running"
    /\ node = "next_round"
    /\ current_round' = current_round + 1
    /\ node' = Edge("next_round", current_phase, current_round', max_rounds)
    /\ status' = StatusAfter(node')
    /\ UNCHANGED <<config_vars, start_vars, text_vars, current_phase, history,
                   verdict, error, call_vars>>
    /\ Observe("next_round", <<>>, None)
    /\ UiFinally

\* the closing phase entered without resetting the round to 0
StartClosingNode_round_kept ==
    /\ status = "running"
    /\ node = "start_closing"
    /\ current_phase' = "closing"
    /\ current_round' = current_round
    /\ node' = Edge("start_closing", current_phase', current_round', max_rounds)
    /\ status' = StatusAfter(node')
    /\ UNCHANGED <<config_vars, start_vars, text_vars, history, verdict, error,
                   call_vars>>
    /\ Observe("start_closing", <<>>, None)
    /\ UiFinally

\* the closing phase skipped: the phase set to "verdict"
StartClosingNode_phase_verdict ==
    /\ status = "running"
    /\ node = "start_closing"
    /\ current_phase' = "verdict"
    /\ current_round' = 0
    /\ node' = Edge("start_closing", current_phase', current_round', max_rounds)
    /\ status' = StatusAfter(node')
    /\ UNCHANGED <<config_vars, start_vars, text_vars, history, verdict, error,
                   call_vars>>
    /\ Observe("start_closing", <<>>, None)
    /\ UiFinally

\* the closing phase entered with the round set to 1
StartClosingNode_round_one ==
    /\ status = "running"
    /\ node = "start_closing"
    /\ current_phase' = "closing"
    /\ current_round' = 1
    /\ node' = Edge("start_closing", current_phase', current_round', max_rounds)
    /\ status' = StatusAfter(node')
    /\ UNCHANGED <<config_vars, start_vars, text_vars, history, verdict, error,
                   call_vars>>
    /\ Observe("start_closing", <<>>, None)
    /\ UiFinally

StartClosingNode ==
    /\ status = "running"
    /\ node = "start_closing"
    /\ current_phase' = "closing"
    /\ current_round' = 0
    /\ node' = Edge("start_closing", current_phase', current_round', max_rounds)
    /\ status' = StatusAfter(node')
    /\ UNCHANGED <<config_vars, start_vars, text_vars, history, verdict, error,
                   call_vars>>
    /\ Observe("start_closing", <<>>, None)
    /\ UiFinally

-----------------------------------------------------------------------------
(* The run *)

\* no text is being post-processed
TextIdle ==
    /\ text_stage = "idle"
    /\ text_in = <<>>
    /\ text_out = <<>>
    /\ text_k = 0
    /\ extracted = None

\* initial_state of run_debate / stream_debate, entry point "proponent"
InitialState(n) ==
    /\ max_rounds = n
    /\ current_phase = "opening"
    /\ current_round = 0
    /\ history = <<>>
    /\ verdict = None
    /\ node = "proponent"
    /\ active = {"proponent"}
    /\ status = "running"
    /\ error = "None"
    /\ attempt = 0
    /\ last_exception = "None"
    /\ raw_response = "None"
    /\ call_attempts = 0
    /\ last_outcome = NoOutcome
    /\ sleeps = <<>>
    /\ prompt = NoPrompt
    /\ events = <<>>
    /\ final_state = None
    /\ trace = <<>>
    /\ debate_in_progress = FALSE

\* a run started by run_debate / stream_debate with a config whose max_rounds
\* is the argument
Init ==
    /\ \E n \in MIN_ROUNDS .. MAX_ROUNDS :
          /\ InitialState(n)
          /\ arg_max_rounds = n
          /\ cfg_max_rounds = n
    /\ topic \in Topics
    /\ max_retries \in MIN_RETRIES .. MAX_RETRIES
    /\ retry_delay \in BaseDelays
    /\ entry = "run_debate_config"
    /\ api_key = "sk-key"
    /\ TextIdle

Next ==
    \/ \E r \in Responses : ProponentNode(r)
    \/ \E r \in Responses : OppositionNode(r)
    \/ \E r \in Responses, w \in Winners, c \in Confidences : JudgeNode(r, w, c)
    \/ StartRebuttalNode
    \/ NextRoundNode
    \/ StartClosingNode
    \/ \E e \in Exceptions : AttemptFails(e)
    \/ \E e \in Exceptions : RetriesExhausted(e)

Spec == Init /\ [][Next]_vars

\* the executor runs the next node as long as there is one, and every
\* generation attempt returns or raises
FairSpec == Spec /\ WF_vars(Next)

-----------------------------------------------------------------------------
(* Starting a run.  Every entry point builds or receives a DebateConfig, then
   run_debate / stream_debate override max_rounds, create the graph and hand
   the initial state to the executor. *)

DEFAULT_MAX_RETRIES == 3
DEFAULT_RETRY_DELAY == 1

PLACEHOLDER_KEY == "your_openrouter_api_key_here"

\* the key absent (os.getenv default ""), the placeholder, a real key
ApiKeys == {"", PLACEHOLDER_KEY, "sk-key"}

\* the CLI, the chat viewer, and the two drivers called without / with a config
Entries == {"cli", "viewer", "run_debate", "stream_debate",
            "run_debate_config", "stream_debate_config"}

\* the max_rounds arguments explored, both sides of the field's range
ArgRounds == {0, 1, 2, 3, 10, 11}

\* max_rounds of the config before the override: the default, the largest
CfgRounds == {3, 10}

START == "__start__"

\* bool(key and key != placeholder)
validate_api_key(key) == key # "" /\ key # PLACEHOLDER_KEY

\* a max_rounds field that accepts every integer
ValidMaxRounds_unchecked(n) == TRUE

\* Field(ge=1, le=10) of DebateConfig.max_rounds
ValidMaxRounds(n) == MIN_ROUNDS <= n /\ n <= MAX_ROUNDS

\* create_llm_client hands the key to ChatOpenAI; src/ does not check it, and
\* whether the client's constructor raises on an empty key is the library's
\* choice, so both outcomes are kept
ClientBuilt(key) == IF key = "" THEN BOOLEAN ELSE {TRUE}

\* an error raised before the graph runs
Rejected(x) ==
    /\ status' = "rejected"
    /\ error' = x
    /\ UNCHANGED <<config_vars, graph_vars, call_vars, driver_vars, node,
                   start_vars, text_vars>>

\* initial_state with config.max_rounds, the executor at the entry point
StartRun(n) ==
    /\ status' = "running"
    /\ max_rounds' = n
    /\ node' = "proponent"
    /\ active' = {"proponent"}
    /\ UNCHANGED <<topic, max_retries, retry_delay, graph_vars, call_vars,
                   events, final_state, trace, error, start_vars, text_vars>>

\* the override left out: the config keeps its own max_rounds
Overridden_config_kept(arg, config_max_rounds) == config_max_rounds

\* config.max_rounds after "if max_rounds != config.max_rounds: config =
\* DebateConfig(**{**config.model_dump(), "max_rounds": max_rounds})"
Overridden(arg, config_max_rounds) ==
    IF arg # config_max_rounds THEN arg ELSE config_max_rounds

\* the setup shared by run_debate and stream_debate: default config when none
\* is supplied, max_rounds override, graph creation, initial state
RunDebate(config_given, config_max_rounds) ==
    IF ~config_given /\ ~validate_api_key(api_key)
    THEN Rejected("ValueError")
    ELSE IF arg_max_rounds # config_max_rounds /\ ~ValidMaxRounds(arg_max_rounds)
    THEN Rejected("ValidationError")
    ELSE \E built \in ClientBuilt(api_key) :
            IF built
            THEN StartRun(Overridden(arg_max_rounds, config_max_rounds))
            ELSE Rejected("OpenAIError")

\* run_debate / stream_debate called with config=None
CallWithoutConfig ==
    /\ status = "starting"
    /\ entry \in {"run_debate", "stream_debate"}
    /\ RunDebate(FALSE, cfg_max_rounds)
    /\ UNCHANGED debate_in_progress

\* run_debate / stream_debate called with a config of the caller's
CallWithConfig ==
    /\ status = "starting"
    /\ entry \in {"run_debate_config", "stream_debate_config"}
    /\ RunDebate(TRUE, cfg_max_rounds)
    /\ UNCHANGED debate_in_progress

\* main.py: get_default_config(), then run_standard / run_streaming pass the
\* config and args.rounds on
CliMain ==
    /\ status = "starting"
    /\ entry = "cli"
    /\ IF ~validate_api_key(api_key)
       THEN Rejected("ValueError")
       ELSE RunDebate(TRUE, cfg_max_rounds)
    /\ UNCHANGED debate_in_progress

\* whether DebateConfig(model_name=model, max_rounds=max_rounds) raises a
\* ValueError: always for a max_rounds out of range; otherwise it depends on
\* the environment, a default_factory being int(os.getenv(...))
ConfigRaises(n) == IF ValidMaxRounds(n) THEN BOOLEAN ELSE {TRUE}

\* app.py: main() sets debate_in_progress and calls run_debate_with_ui, which
\* builds DebateConfig(model_name=model, max_rounds=max_rounds), then consumes
\* stream_debate with that config inside try / except Exception / finally;
\* "except ValueError: st.error(...); return" around the DebateConfig call is
\* before that try, so the flag stays as main() set it
RunDebateWithUi ==
    /\ status = "starting"
    /\ entry = "viewer"
    /\ ~debate_in_progress
    /\ \E raises \in ConfigRaises(arg_max_rounds) :
          IF raises
          THEN /\ Rejected("ValueError")
               /\ debate_in_progress' = TRUE
          ELSE /\ RunDebate(TRUE, arg_max_rounds)
               /\ debate_in_progress' = (status' = "running")

\* no graph has been run: no state, no call, nothing yielded or returned
NoRun ==
    /\ status = "starting"
    /\ node = START
    /\ active = {}
    /\ current_phase = "opening"
    /\ current_round = 0
    /\ history = <<>>
    /\ verdict = None
    /\ error = "None"
    /\ attempt = 0
    /\ last_exception = "None"
    /\ raw_response = "None"
    /\ call_attempts = 0
    /\ last_outcome = NoOutcome
    /\ sleeps = <<>>
    /\ prompt = NoPrompt
    /\ events = <<>>
    /\ final_state = None
    /\ trace = <<>>
    /\ debate_in_progress = FALSE

\* before an entry point is called: default retry settings, nothing run
StartInit ==
    /\ entry \in Entries
    /\ api_key \in ApiKeys
    /\ arg_max_rounds \in ArgRounds
    /\ cfg_max_rounds \in CfgRounds
    /\ topic \in Topics
    /\ max_rounds = cfg_max_rounds
    /\ max_retries = DEFAULT_MAX_RETRIES
    /\ retry_delay = DEFAULT_RETRY_DELAY
    /\ NoRun
    /\ TextIdle

StartNext ==
    \/ CallWithoutConfig
    \/ CallWithConfig
    \/ CliMain
    \/ RunDebateWithUi
    \/ Next

StartSpec == StartInit /\ [][StartNext]_vars

-----------------------------------------------------------------------------
(* Response processing.  A text is a sequence of characters; "CR", "LF" and
   "SP" stand for carriage return, line feed and space, the whitespace that
   str.strip and str.split remove. *)

MaxMixedLen == 5
MaxTextLen == 9
MaxWords == 2
MaxWordLen == 10

Whitespace == {"CR", "LF", "SP"}

\* the sequences over alphabet of length at most n
SeqsUpTo(alphabet, n) == UNION {[1 .. m -> alphabet] : m \in 0 .. n}

\* a long first word with periods anywhere in it, then one more word
LongTexts == {w \o <<"SP", "a">> : w \in SeqsUpTo({"a", "."}, MaxWordLen)}

\* texts mixing every kind of whitespace, longer texts of words, periods and
\* spaces, and texts whose first word is long
Texts ==
    SeqsUpTo(Whitespace \cup {"a"}, MaxMixedLen)
        \cup SeqsUpTo({"a", ".", "SP"}, MaxTextLen)
        \cup LongTexts

Max(S) == CHOOSE x \in S : \A y \in S : y <= x

RECURSIVE ReplaceCRLF(_)
\* content.replace("\r\n", "\n"): left to right, non-overlapping
ReplaceCRLF(s) ==
    IF Len(s) < 2 THEN s
    ELSE IF s[1] = "CR" /\ s[2] = "LF"
         THEN <<"LF">> \o ReplaceCRLF(SubSeq(s, 3, Len(s)))
         ELSE <<s[1]>> \o ReplaceCRLF(Tail(s))

RECURSIVE LeadingCount(_, _)
\* how many leading characters of s lie in S
LeadingCount(s, S) ==
    IF s = <<>> \/ s[1] \notin S THEN 0
    ELSE 1 + LeadingCount(Tail(s), S)

RECURSIVE CollapseNewlines(_)
\* re.sub(r"\n{3,}", "\n\n", content): each maximal run of 3 or more line
\* feeds becomes two
CollapseNewlines(s) ==
    IF s = <<>> THEN <<>>
    ELSE IF s[1] = "LF"
         THEN LET n == LeadingCount(s, {"LF"})
              IN (IF n >= 3 THEN <<"LF", "LF">> ELSE SubSeq(s, 1, n))
                     \o CollapseNewlines(SubSeq(s, n + 1, Len(s)))
         ELSE <<s[1]>> \o CollapseNewlines(Tail(s))

\* str.strip(): leading and trailing whitespace removed
Strip(s) ==
    LET I == {i \in 1 .. Len(s) : s[i] \notin Whitespace}
    IN IF I = {} THEN <<>>
       ELSE SubSeq(s, CHOOSE i \in I : \A j \in I : i <= j, Max(I))

clean_response(content) == Strip(CollapseNewlines(ReplaceCRLF(content)))

RECURSIVE Split(_)
\* str.split(): the maximal runs of non-whitespace characters
Split(s) ==
    LET t == SubSeq(s, LeadingCount(s, Whitespace) + 1, Len(s))
    IN IF t = <<>> THEN <<>>
       ELSE LET n == LeadingCount(t, {"a", "."})
            IN <<SubSeq(t, 1, n)>> \o Split(SubSeq(t, n + 1, Len(t)))

RECURSIVE Join(_)
\* " ".join(words)
Join(words) ==
    IF words = <<>> THEN <<>>
    ELSE IF Len(words) = 1 THEN words[1]
    ELSE words[1] \o <<"SP">> \o Join(Tail(words))

\* str.rfind(c): the 0-based index of the last c, -1 when there is none
rfind(s, c) ==
    LET I == {i \in 1 .. Len(s) : s[i] = c}
    IN IF I = {} THEN -1 ELSE Max(I) - 1

count_words(text) == Len(Split(text))

\* one word more than allowed kept: words[:max_words + 1]
truncate_response_extra_word(content, max_words) ==
    LET words == Split(content)
    IN IF Len(words) <= max_words THEN content
       ELSE Join(SubSeq(words, 1, max_words + 1))

\* last_period > len * 0.7 is compared in integers: 10 * last_period > 7 * len
truncate_response(content, max_words) ==
    LET words == Split(content)
    IN IF Len(words) <= max_words THEN content
       ELSE LET truncated_content == Join(SubSeq(words, 1, max_words))
                last_period == rfind(truncated_content, ".")
            IN IF 10 * last_period > 7 * Len(truncated_content)
               THEN SubSeq(truncated_content, 1, last_period + 1)
               ELSE truncated_content

\* clean_response applied to the text, once and once more on its result
CleanStep ==
    /\ text_stage \in {"raw", "cleaned"}
    /\ text_stage' = IF text_stage = "raw" THEN "cleaned" ELSE "recleaned"
    /\ text_in' = text_out
    /\ text_out' = clean_response(text_out)
    /\ UNCHANGED <<text_k, extracted, config_vars, graph_vars, call_vars,
                   driver_vars, start_vars, debate_in_progress, node, status,
                   error>>

\* truncate_response applied to the text
TruncateStep(k) ==
    /\ text_stage = "raw"
    /\ text_stage' = "truncated"
    /\ text_in' = text_out
    /\ text_out' = truncate_response(text_out, k)
    /\ text_k' = k
    /\ UNCHANGED <<extracted, config_vars, graph_vars, call_vars,
                   driver_vars, start_vars, debate_in_progress, node, status,
                   error>>

\* the speaker's response cleaned and never truncated
node_content_untruncated(role, raw, max_response_length) == clean_response(raw)

\* the content of the turn a node makes of the raw response: cleaned, and for
\* the proponent and the opposition truncated to config.max_response_length
node_content(role, raw, max_response_length) ==
    IF role = "judge"
    THEN clean_response(raw)
    ELSE truncate_response(clean_response(raw), max_response_length)

\* len(self.content.split())
word_count(content) == count_words(content)

TurnStage(role) ==
    CASE role = "proponent" -> "proponent_turn"
      [] role = "opposition" -> "opposition_turn"
      [] role = "judge" -> "judge_turn"

\* a node post-processing the raw response into the content of its turn
TurnContent(role, k) ==
    /\ text_stage = "raw"
    /\ text_stage' = TurnStage(role)
    /\ text_in' = text_out
    /\ text_out' = node_content(role, text_out, k)
    /\ text_k' = k
    /\ UNCHANGED <<extracted, config_vars, graph_vars, call_vars,
                   driver_vars, start_vars, debate_in_progress, node, status,
                   error>>

\* no run is in progress; the retry settings are the defaults
NoDebate ==
    /\ entry = "none"
    /\ api_key = ""
    /\ arg_max_rounds = 0
    /\ cfg_max_rounds = 0
    /\ topic \in Topics
    /\ max_rounds = MIN_ROUNDS
    /\ max_retries = DEFAULT_MAX_RETRIES
    /\ retry_delay = DEFAULT_RETRY_DELAY
    /\ NoRun

TextInit ==
    /\ NoDebate
    /\ text_stage = "raw"
    /\ text_in \in Texts
    /\ text_out = text_in
    /\ text_k = 0
    /\ extracted = None

TextNext ==
    \/ CleanStep
    \/ \E k \in 1 .. MaxWords : TruncateStep(k)
    \/ \E role \in AgentNodes, k \in 1 .. MaxWords : TurnContent(role, k)

TextSpec == TextInit /\ [][TextNext]_vars

-----------------------------------------------------------------------------
(* Verdict extraction.  The judge's text is a sequence of tokens separated by
   whitespace; the patterns of extract_winner_from_text and
   extract_confidence_from_text allow whitespace exactly where one token ends
   and the next begins, so a match is a run of consecutive tokens.
   clean_response, applied first, leaves the tokens as they are. *)

MaxTokens == 4

JudgeTokens == {"**Winner:", "Winner:", "Proponent**", "tie", "the", "winner",
                "is", "declare", "**Confidence:", "confidence:", "High**", "low"}

\* phrases that match one pattern each
MarkerPhrases ==
    {<<"**Winner:", "Proponent**">>, <<"Winner:", "tie">>,
     <<"the", "winner", "is", "tie">>,
     <<"the", "winner", "is", "the", "Proponent**">>,
     <<"declare", "tie", "winner">>, <<"declare", "the", "tie", "the", "winner">>,
     <<"**Confidence:", "High**">>, <<"confidence:", "low">>}

\* every short text, and every text made of two marker phrases
JudgeTexts ==
    SeqsUpTo(JudgeTokens, MaxTokens)
        \cup {a \o b : a \in MarkerPhrases, b \in MarkerPhrases}

\* str.lower() of a token
Lower(t) ==
    CASE t = "**Winner:" -> "**winner:"
      [] t = "Winner:" -> "winner:"
      [] t = "Proponent**" -> "proponent**"
      [] t = "**Confidence:" -> "**confidence:"
      [] t = "High**" -> "high**"
      [] OTHER -> t

\* content.lower()
LowerAll(toks) == [i \in 1 .. Len(toks) |-> Lower(toks[i])]

\* the group (proponent|opposition|tie) matched at the start of a token
NameAtStart(t) ==
    CASE t \in {"proponent", "proponent**"} -> Some("proponent")
      [] t \in {"opposition", "opposition**"} -> Some("opposition")
      [] t \in {"tie", "tie**"} -> Some("tie")
      [] OTHER -> None

\* the group followed by the closing ** of the bold pattern
NameBold(t) ==
    CASE t = "proponent**" -> Some("proponent")
      [] t = "opposition**" -> Some("opposition")
      [] t = "tie**" -> Some("tie")
      [] OTHER -> None

\* the group as a whole token, whitespace after it
NameWhole(t) ==
    IF t \in {"proponent", "opposition", "tie"} THEN Some(t) ELSE None

\* the group (high|medium|low) at the start of a token / before a closing **
LevelAtStart(t) ==
    CASE t \in {"high", "high**"} -> Some("high")
      [] t \in {"medium", "medium**"} -> Some("medium")
      [] t \in {"low", "low**"} -> Some("low")
      [] OTHER -> None

LevelBold(t) ==
    CASE t = "high**" -> Some("high")
      [] t = "medium**" -> Some("medium")
      [] t = "low**" -> Some("low")
      [] OTHER -> None

\* token i of c, "" past the end
Tok(c, i) == IF i \in 1 .. Len(c) THEN c[i] ELSE ""

\* \*\*winner:\s*(proponent|opposition|tie)\*\* matched from token i
WinnerBoldAt(c, i) ==
    IF Tok(c, i) = "**winner:" THEN NameBold(Tok(c, i + 1)) ELSE None

\* winner:\s*(proponent|opposition|tie) matched from token i
WinnerColonAt(c, i) ==
    IF Tok(c, i) \in {"winner:", "**winner:"}
    THEN NameAtStart(Tok(c, i + 1)) ELSE None

\* the\s+winner\s+is\s+(?:the\s+)?(proponent|opposition|tie) from token i
WinnerIsAt(c, i) ==
    IF Tok(c, i) = "the" /\ Tok(c, i + 1) = "winner" /\ Tok(c, i + 2) = "is"
    THEN IF Tok(c, i + 3) = "the" /\ NameAtStart(Tok(c, i + 4)) # None
         THEN NameAtStart(Tok(c, i + 4))
         ELSE NameAtStart(Tok(c, i + 3))
    ELSE None

\* a token that begins with "winner"
StartsWithWinner(t) == t \in {"winner", "winner:"}

\* (?:i\s+)?declare\s+(?:the\s+)?(proponent|opposition|tie)\s+(?:as\s+)?
\* (?:the\s+)?winner from token i
DeclareAt(c, i) ==
    IF Tok(c, i) # "declare" THEN None
    ELSE LET j == IF Tok(c, i + 1) = "the" /\ NameWhole(Tok(c, i + 2)) # None
                  THEN i + 2 ELSE i + 1
             k == IF Tok(c, j + 1) = "as" THEN j + 2 ELSE j + 1
         IN IF NameWhole(Tok(c, j)) # None
               /\ (StartsWithWinner(Tok(c, k))
                   \/ (Tok(c, k) = "the" /\ StartsWithWinner(Tok(c, k + 1))))
            THEN NameWhole(Tok(c, j))
            ELSE None

\* re.search(pattern, content_lower): the leftmost match, None without one;
\* At[i] is the match of the pattern from token i
Search(At) ==
    LET I == {i \in DOMAIN At : At[i] # None}
    IN IF I = {} THEN None
       ELSE At[CHOOSE i \in I : \A j \in I : i <= j]

\* the four patterns of extract_winner_from_text, in the order of the list
WinnerAt(k, c, i) ==
    CASE k = 1 -> WinnerBoldAt(c, i)
      [] k = 2 -> WinnerColonAt(c, i)
      [] k = 3 -> WinnerIsAt(c, i)
      [] k = 4 -> DeclareAt(c, i)

\* the match that starts leftmost in the text, whichever pattern it is of
extract_winner_leftmost(content) ==
    LET c == LowerAll(content)
        I == {i \in 1 .. Len(c) : \E k \in 1 .. 4 : WinnerAt(k, c, i) # None}
    IN IF I = {} THEN None
       ELSE LET i == CHOOSE x \in I : \A y \in I : x <= y
                k == CHOOSE x \in 1 .. 4 :
                        /\ WinnerAt(x, c, i) # None
                        /\ \A y \in 1 .. 4 : WinnerAt(y, c, i) # None => x <= y
            IN WinnerAt(k, c, i)

\* the first pattern, in the order of the list, that matches
extract_winner_from_text(content) ==
    LET c == LowerAll(content)
        m1 == Search([i \in 1 .. Len(c) |-> WinnerBoldAt(c, i)])
        m2 == Search([i \in 1 .. Len(c) |-> WinnerColonAt(c, i)])
        m3 == Search([i \in 1 .. Len(c) |-> WinnerIsAt(c, i)])
        m4 == Search([i \in 1 .. Len(c) |-> DeclareAt(c, i)])
    IN IF m1 # None THEN m1
       ELSE IF m2 # None THEN m2
       ELSE IF m3 # None THEN m3
       ELSE m4

\* \*\*confidence:\s*(high|medium|low)\*\* matched from token i
ConfidenceBoldAt(c, i) ==
    IF Tok(c, i) = "**confidence:" THEN LevelBold(Tok(c, i + 1)) ELSE None

\* confidence:\s*(high|medium|low) matched from token i
ConfidenceColonAt(c, i) ==
    IF Tok(c, i) \in {"confidence:", "**confidence:"}
    THEN LevelAtStart(Tok(c, i + 1)) ELSE None

\* "medium" is returned when no pattern matches
extract_confidence_from_text(content) ==
    LET c == LowerAll(content)
        m1 == Search([i \in 1 .. Len(c) |-> ConfidenceBoldAt(c, i)])
        m2 == Search([i \in 1 .. Len(c) |-> ConfidenceColonAt(c, i)])
    IN IF m1 # None THEN m1
       ELSE IF m2 # None THEN m2
       ELSE Some("medium")

\* x or default
OrDefault(x, default) == IF x = None THEN default ELSE x[1]

\* the judge taking the proponent for the winner when none is found
judge_winner_default_proponent(response) ==
    OrDefault(extract_winner_from_text(response), "proponent")

\* winner = extract_winner_from_text(response) or "tie"
judge_winner(response) == OrDefault(extract_winner_from_text(response), "tie")

\* confidence = extract_confidence_from_text(response) or "medium"
judge_confidence(response) ==
    OrDefault(extract_confidence_from_text(response), "medium")

\* the part of judge_node after the generation call: the verdict is built
\* from the text
JudgeExtract ==
    /\ text_stage = "judge_text"
    /\ text_stage' = "judged"
    /\ extracted' = Some(JudgeVerdict(judge_winner(text_out),
                                      judge_confidence(text_out)))
    /\ UNCHANGED <<text_in, text_out, text_k, config_vars, graph_vars,
                   call_vars, driver_vars, start_vars, debate_in_progress, node,
                   status, error>>

VerdictInit ==
    /\ NoDebate
    /\ text_stage = "judge_text"
    /\ text_in \in JudgeTexts
    /\ text_out = text_in
    /\ text_k = 0
    /\ extracted = None

VerdictNext == JudgeExtract

VerdictSpec == VerdictInit /\ [][VerdictNext]_vars

-----------------------------------------------------------------------------
(* The phase router.  create_phase_router returns a function of the state
   that names the next node; create_debate_graph does not use it.  Here it is
   called on every state a caller could hand it. *)

\* the values of GraphState["current_phase"]
RouterPhases == {"opening", "rebuttal", "closing", "verdict", "complete"}

\* phase_router(state), with last_role = history[-1].role if history else None
phase_router(phase, round, maxr, last) ==
    IF phase = "opening"
    THEN (IF last = "opposition" THEN "start_rebuttal"
          ELSE IF last = "proponent" THEN "opposition"
          ELSE "proponent")
    ELSE IF phase = "rebuttal"
    THEN (IF last = "opposition"
          THEN (IF round >= maxr THEN "start_closing" ELSE "next_round")
          ELSE "opposition")
    ELSE IF phase = "closing"
    THEN (IF last = "opposition" THEN "judge"
          ELSE IF last = "proponent" THEN "opposition"
          ELSE "proponent")
    ELSE IF phase = "verdict" THEN "end"
    ELSE "end"

\* a state handed to the router: any phase, round and max_rounds, a history
\* that is empty or ends with a turn of any role; nothing else is in progress
RouterInit ==
    /\ status = "routing"
    /\ node = START
    /\ current_phase \in RouterPhases
    /\ current_round \in 0 .. MAX_ROUNDS
    /\ max_rounds \in MIN_ROUNDS .. MAX_ROUNDS
    /\ history \in {<<>>} \cup {<<DebateTurn(r, "opening", 0)>> : r \in AgentNodes}
    /\ verdict = None
    /\ topic \in Topics
    /\ max_retries = DEFAULT_MAX_RETRIES
    /\ retry_delay = DEFAULT_RETRY_DELAY
    /\ entry = "none"
    /\ api_key = ""
    /\ arg_max_rounds = 0
    /\ cfg_max_rounds = 0
    /\ active = {}
    /\ error = "None"
    /\ attempt = 0
    /\ last_exception = "None"
    /\ raw_response = "None"
    /\ call_attempts = 0
    /\ last_outcome = NoOutcome
    /\ sleeps = <<>>
    /\ prompt = NoPrompt
    /\ events = <<>>
    /\ final_state = None
    /\ trace = <<>>
    /\ debate_in_progress = FALSE
    /\ TextIdle

\* the router called on the state: the node it names
RouteStep ==
    /\ status = "routing"
    /\ status' = "routed"
    /\ node' = phase_router(current_phase, current_round, max_rounds,
                            last_role(history))
    /\ UNCHANGED <<config_vars, graph_vars, call_vars, driver_vars, start_vars,
                   debate_in_progress, text_vars, error>>

RouterNext == RouteStep

RouterSpec == RouterInit /\ [][RouterNext]_vars

-----------------------------------------------------------------------------
(* The turn sequence the chat viewer expects (debate_flow) *)

DebateFlow(n) ==
    <<DebateTurn("proponent", "opening", 0), DebateTurn("opposition", "opening", 0)>>
    \o [i \in 1 .. 2 * n |->
          DebateTurn(IF i % 2 = 1 THEN "proponent" ELSE "opposition",
                     "rebuttal", (i + 1) \div 2)]
    \o <<DebateTurn("proponent", "closing", 0), DebateTurn("opposition", "closing", 0)>>
    \o <<DebateTurn("judge", "verdict", 0)>>

-----------------------------------------------------------------------------
(* Properties *)

TurnsWhere(P(_)) == {i \in DOMAIN history : P(history[i])}
InPhase(p) == TurnsWhere(LAMBDA t : t.phase = p)
ByRole(r) == TurnsWhere(LAMBDA t : t.role = r)
IsPrefix(s, t) == Len(s) <= Len(t) /\ SubSeq(t, 1, Len(s)) = s

TypeOK ==
    /\ topic \in Topics
    /\ max_rounds \in MIN_ROUNDS .. MAX_ROUNDS
    /\ max_retries \in MIN_RETRIES .. MAX_RETRIES
    /\ retry_delay \in BaseDelays
    /\ current_phase \in {"opening", "rebuttal", "closing", "verdict", "complete"}
    /\ current_round \in 0 .. MAX_ROUNDS
    /\ node \in AgentNodes \cup TransitionNodes \cup {END}
    /\ status \in {"running", "returned", "raised"}
    /\ error \in Exceptions \cup {"None", "ValueError"}
    /\ attempt \in 0 .. MAX_RETRIES
    /\ last_exception \in Exceptions \cup {"None"}
    /\ raw_response \in Responses \cup {"None"}
    /\ call_attempts \in 0 .. MAX_RETRIES + 1
    /\ Len(history) <= MaxHistory

C2_TurnOrdering ==
    status = "returned" => history = DebateFlow(max_rounds)

\* the scenario max_rounds = 3: 11 turns, rebuttal rounds 1,1,2,2,3,3
C2_Witness ==
    /\ status = "returned"
    /\ max_rounds = 3
    /\ Len(history) = 11
    /\ [i \in 1 .. 6 |-> history[2 + i].round_number] = <<1, 1, 2, 2, 3, 3>>

\* C3: in every reachable state every turn outside the rebuttal phase has
\* round_number 0 and every rebuttal turn has round_number in 1..max_rounds.
C3_RoundNumbers ==
    \A i \in DOMAIN history :
        IF history[i].phase = "rebuttal"
        THEN history[i].round_number \in 1 .. max_rounds
        ELSE history[i].round_number = 0

\* a run that failed in closing, after the last rebuttal round
C3_Witness ==
    /\ status = "raised"
    /\ max_rounds >= 2
    /\ Len(history) = 2 * max_rounds + 3
    /\ history[Len(history)].phase = "closing"
    /\ history[Len(history) - 1].round_number = max_rounds

\* C4: in every reachable state a proponent turn is followed only by the
\* opposition turn of the same phase and round, an opposition turn is directly
\* preceded by the proponent turn of its phase and round, there is at most one
\* judge turn and a judge turn is the last entry.
C4_Alternation ==
    /\ \A i \in DOMAIN history :
        /\ (history[i].role = "proponent" /\ i < Len(history)) =>
              history[i + 1] = DebateTurn("opposition", history[i].phase,
                                          history[i].round_number)
        /\ history[i].role = "opposition" =>
              /\ i > 1
              /\ history[i - 1] = DebateTurn("proponent", history[i].phase,
                                             history[i].round_number)
        /\ history[i].role = "judge" => i = Len(history)
    /\ Cardinality(ByRole("judge")) <= 1

\* mid-run, in the second rebuttal round, the proponent having just spoken
C4_Witness ==
    /\ status = "running"
    /\ node = "opposition"
    /\ current_phase = "rebuttal"
    /\ current_round = 2
    /\ history[Len(history)].role = "proponent"

\* C5: in every reachable state the verdict is set if and only if
\* current_phase is complete.
C5_VerdictIffComplete ==
    (verdict # None) <=> (current_phase = "complete")

\* the state the judge step leaves
C5_Witness ==
    /\ verdict # None
    /\ current_phase = "complete"
    /\ history[Len(history)].role = "judge"

C7_AppendOnly ==
    [][/\ IsPrefix(history, history')
       /\ Len(history') <= Len(history) + 1]_vars

\* a run that failed after some turns: the turns are still there
C7_Witness ==
    /\ status = "raised"
    /\ Len(history) >= 3
    /\ history[1] = DebateTurn("proponent", "opening", 0)

\* C8: the verdict is write-once: only the judge step sets it, from None, no
\* step changes it afterwards (no step runs once it is set), and a run that
\* returned has it set.
C8_VerdictWriteOnce ==
    /\ [](status = "returned" => verdict # None)
    /\ [][/\ verdict = None
          /\ verdict' # verdict => (node = "judge" /\ verdict' # None)]_vars

\* a completed run whose judge declared a tie
C8_Witness ==
    /\ status = "returned"
    /\ verdict = Some(JudgeVerdict("tie", "medium"))

\* C9: a call whose first max_retries attempts raise and whose next attempt
\* succeeds returns that attempt's result and raises nothing; a call whose
\* max_retries+1 attempts all raise raises the exception of the last attempt,
\* and a call raises only after exactly max_retries+1 attempts.
C9_RetryBudget ==
    /\ (call_attempts = max_retries + 1 /\ last_outcome.kind = "ok") =>
          /\ status # "raised"
          /\ error = "None"
          /\ raw_response = last_outcome.val
    /\ (call_attempts = max_retries + 1 /\ last_outcome.kind = "exc") =>
          /\ status = "raised"
          /\ error = last_outcome.val
    /\ status = "raised" =>
          /\ call_attempts = max_retries + 1
          /\ last_outcome.kind = "exc"
          /\ error = last_exception

\* the largest retry budget, used up to the last attempt, which succeeded
C9_Witness ==
    /\ max_retries = MAX_RETRIES
    /\ call_attempts = max_retries + 1
    /\ last_outcome.kind = "ok"
    /\ Len(sleeps) = max_retries
    /\ status = "running"

\* C10 as stated: the delay slept before attempt i (0-indexed) is
\* min(base_delay * 2^i, 30).
C10_DelayBeforeAttempt ==
    \A k \in DOMAIN sleeps :
        sleeps[k].delay = Min(retry_delay * 2 ^ sleeps[k].before, 30)

\* C10 amended: the delay slept after failed attempt i (0-indexed), that is
\* before attempt i+1, is min(base_delay * 2^i, 30); nothing is slept before
\* attempt 0; the delays double until they reach the cap of 30.
C10_DelayAfterFailedAttempt ==
    \A k \in DOMAIN sleeps :
        /\ sleeps[k].before = k
        /\ sleeps[k].delay = Min(retry_delay * 2 ^ (k - 1), 30)
        /\ sleeps[k].delay <= 30
        /\ k > 1 => sleeps[k].delay = Min(2 * sleeps[k - 1].delay, 30)

\* five sleeps from base delay 3: 3, 6, 12, 24 and the capped 30
C10_Witness ==
    /\ retry_delay = 3
    /\ Len(sleeps) = 5
    /\ sleeps[4].delay = 24
    /\ sleeps[5].delay = 30

-----------------------------------------------------------------------------
(* Failure of a step *)

\* the last generation call raised on its final attempt
Exhausted == last_outcome.kind = "exc" /\ call_attempts = max_retries + 1

\* C11: when a turn's generation exhausts its retry budget the run stops: the
\* exception leaves the run, no further step is taken (no agent is invoked
\* again), the failed step appends no turn, the verdict stays null and
\* current_phase does not become "complete".
C11_FailureStopsRun ==
    [][ /\ status # "raised"
        /\ Exhausted' =>
              /\ status' = "raised"
              /\ history' = history
              /\ events' = events
              /\ verdict' = None
              /\ current_phase' # "complete" ]_vars

\* a run that failed in mid-debate, after turns had been appended
C11_Witness ==
    /\ status = "raised"
    /\ Exhausted
    /\ Len(history) >= 3
    /\ max_retries > 1

RECURSIVE ConcatHistories(_)
\* the caller of stream_debate appending each event's history entries
ConcatHistories(evs) ==
    IF evs = <<>> THEN <<>>
    ELSE evs[1].history \o ConcatHistories(Tail(evs))

\* C12 as stated: when a run fails mid-debate the turns appended before the
\* failure are in the caller's hands in both modes: the streaming caller has
\* them from the events, the blocking caller from run_debate's result.
C12_PartialTranscriptBothModes ==
    (status = "raised" /\ history # <<>>) =>
        /\ ConcatHistories(events) = history
        /\ final_state # None
        /\ final_state[1].history = history

\* C15: concatenating the history entries of the events yielded by
\* stream_debate, in yield order, gives the transcript of the run at every
\* point, and at the end exactly the transcript run_debate returns; the
\* verdict is carried by the last event and by no earlier one.
C15_StreamMatchesBlocking ==
    /\ ConcatHistories(events) = history
    /\ \A i \in 1 .. Len(events) :
          events[i].verdict # None => i = Len(events) /\ status = "returned"
    /\ status = "returned" =>
          /\ final_state # None
          /\ ConcatHistories(events) = final_state[1].history
          /\ events[Len(events)].verdict = final_state[1].verdict
          /\ events[Len(events)].verdict # None

\* both drivers at the end of a debate of several rounds
C15_Witness ==
    /\ status = "returned"
    /\ final_state # None
    /\ max_rounds = 3
    /\ Len(events) = 3 * max_rounds + 6
    /\ Len(ConcatHistories(events)) = 2 * max_rounds + 5

\* the turn an agent node appends in the current state
TurnOf(n) ==
    IF n = "judge" THEN DebateTurn("judge", "verdict", 0)
    ELSE DebateTurn(n, current_phase, current_round)

\* C19: a response that lacks required headers is not fatal, for every role:
\* the step appends the turn and the run goes on to the same node, phase and
\* round as with a conforming response (the judge sets phase and verdict).
C19_ValidationNonFatal ==
    [][ \A r \in Responses :
          (/\ node \in AgentNodes
           /\ ~HasHeaders(r)
           /\ last_outcome' = Returned(r)) =>
              /\ status' # "raised"
              /\ history' = Append(history, TurnOf(node))
              /\ current_round' = current_round
              /\ current_phase' = IF node = "judge" THEN "complete" ELSE current_phase
              /\ node' = Edge(node, current_phase', current_round', max_rounds)
              /\ (node = "judge") = (verdict' # None) ]_vars

\* a debate that returned although the judge's response lacked headers
C19_Witness ==
    /\ status = "returned"
    /\ ~HasHeaders(raw_response)
    /\ Len(history) = 2 * max_rounds + 5
    /\ verdict # None

\* C20: at most one node is active at every point of a run: every node has
\* exactly one successor under every state, so the executor never schedules
\* two nodes for one step, and no step appends more than one turn.
C20_OneNodeAtATime ==
    /\ Cardinality(active) <= 1
    /\ status = "running" => active = {node}
    /\ \A n \in AgentNodes \cup TransitionNodes :
          Cardinality(Targets(n, current_phase, current_round, max_rounds)) = 1
    /\ \A i \in 1 .. Len(events) : Len(events[i].history) <= 1

\* the rebuttal loop taken: next_round is the one scheduled node
C20_Witness ==
    /\ status = "running"
    /\ active = {"next_round"}
    /\ Len(events) > 5

-----------------------------------------------------------------------------
(* Startup errors *)

\* C13 as stated: with the API key absent or still the placeholder the
\* settings are rejected before any agent is invoked, on every entry point:
\* no generation attempt is ever made and no turn is produced.
C13_KeyRejectedEveryPath ==
    ~validate_api_key(api_key) =>
        /\ call_attempts = 0
        /\ history = <<>>

-----------------------------------------------------------------------------
(* Response processing *)

\* C17 as stated: clean_response is idempotent: cleaning a cleaned text
\* changes nothing, for every text, those mixing CR, LF and spaces included.
C17_CleanIdempotent ==
    text_stage = "recleaned" => text_out = text_in

\* C18: for every text x and limit k > 0, truncate_response(x, k) has at most
\* k words, and it is x itself when x has at most k words.
C18_TruncateBound ==
    text_stage = "truncated" =>
        /\ text_k > 0
        /\ count_words(text_out) <= text_k
        /\ count_words(text_in) <= text_k => text_out = text_in

\* a text of more than k words cut to k words, then back to its last period
C18_Witness ==
    /\ text_stage = "truncated"
    /\ count_words(text_in) > text_k
    /\ count_words(text_out) = text_k
    /\ Len(text_out) < Len(Join(SubSeq(Split(text_in), 1, text_k)))

-----------------------------------------------------------------------------
(* Verdict defaults *)

\* token t of the lowered text contains the word w
Mentions(toks, words) == \E i \in 1 .. Len(toks) : Lower(toks[i]) \in words

\* C16: the judge step builds a verdict from any text without raising; a text
\* with no winner marker gives winner = tie, a text with no confidence marker
\* gives confidence = medium, each independently of the other.
C16_VerdictDefaults ==
    text_stage = "judged" =>
        /\ extracted # None
        /\ extracted[1].winner \in Winners
        /\ extracted[1].confidence \in Confidences
        /\ ~Mentions(text_in, {"winner", "winner:", "**winner:"})
              => extracted[1].winner = "tie"
        /\ ~Mentions(text_in, {"confidence:", "**confidence:"})
              => extracted[1].confidence = "medium"

\* a text with a winner marker and no confidence marker: the winner is the
\* one named, the confidence is the default
C16_Witness ==
    /\ text_stage = "judged"
    /\ Mentions(text_in, {"winner:", "**winner:"})
    /\ ~Mentions(text_in, {"confidence:", "**confidence:"})
    /\ extracted = Some(JudgeVerdict("proponent", "medium"))

-----------------------------------------------------------------------------
(* The orchestrator's choice of the next step *)

\* two steps of the trace left the same phase, round and last role
SameObservables(a, b) ==
    /\ a.phase = b.phase
    /\ a.round = b.round
    /\ a.last_role = b.last_role

\* C21 as stated: the next action is a function of current_phase,
\* current_round and the role of the last transcript entry (max_rounds being
\* fixed in a run): two states of a run that agree on the three are followed
\* by the same node.
C21_NextByObservables ==
    \A i, j \in 1 .. Len(trace) :
        SameObservables(trace[i], trace[j]) => trace[i].next = trace[j].next

\* the node that follows, by the node that has just run and the phase and
\* round it left
NextAction(ran, phase, round, maxr) ==
    CASE ran = "proponent" -> "opposition"
      [] ran \in TransitionNodes -> "proponent"
      [] ran = "judge" -> END
      [] ran = "opposition" /\ phase = "opening" -> "start_rebuttal"
      [] ran = "opposition" /\ phase = "rebuttal" /\ round < maxr -> "next_round"
      [] ran = "opposition" /\ phase = "rebuttal" /\ round >= maxr -> "start_closing"
      [] ran = "opposition" /\ phase = "closing" -> "judge"
      [] OTHER -> "undefined"

\* C21 amended: the next action is a function of the node that has just run
\* together with current_phase, current_round and max_rounds, the same in
\* every run; the transcript plays no part.
C21_NextByNodeAndState ==
    \A i \in 1 .. Len(trace) :
        trace[i].next =
            NextAction(trace[i].ran, trace[i].phase, trace[i].round, max_rounds)

\* a completed run in which two states agree on phase, round and last role
\* and are followed by different nodes, having been left by different nodes
C21_Witness ==
    /\ status = "returned"
    /\ \E i, j \in 1 .. Len(trace) :
          /\ SameObservables(trace[i], trace[j])
          /\ trace[i].ran = "start_rebuttal"
          /\ trace[j].ran = "opposition"
          /\ trace[i].next = "proponent"
          /\ trace[j].next = "next_round"

\* C22 as stated: current_round never decreases across the steps of a run;
\* the only step that sets it to 0 is start_closing and the only step that
\* sets it to 1 is start_rebuttal.
C22_RoundNeverDecreases ==
    [][ /\ current_round' >= current_round
        /\ (current_round' # current_round /\ current_round' = 0)
              => node = "start_closing"
        /\ (current_round' # current_round /\ current_round' = 1)
              => node = "start_rebuttal" ]_vars

\* C22 amended: current_round decreases in one step only, start_closing,
\* which resets it to 0; the only step that sets it to 1 is start_rebuttal;
\* every other change is an increment by next_round.
C22_RoundDecreasesOnlyAtClosing ==
    [][ /\ current_round' < current_round
              => (node = "start_closing" /\ current_round' = 0)
        /\ (current_round' # current_round /\ current_round' = 1)
              => node = "start_rebuttal"
        /\ (current_round' > current_round /\ current_round' # 1)
              => (node = "next_round" /\ current_round' = current_round + 1) ]_vars

\* the closing phase entered after several rounds: the round was reset
C22_Witness ==
    /\ current_phase = "closing"
    /\ current_round = 0
    /\ \E i \in 1 .. Len(trace) : trace[i].round >= 2

\* C23: a phase-transition step appends no turn and leaves transcript,
\* verdict, topic and max_rounds as they are; it changes current_phase or
\* current_round, and the step after it is the proponent's.
C23_TransitionFrame ==
    [][ /\ (status = "running" /\ node \in TransitionNodes) =>
              /\ history' = history
              /\ verdict' = verdict
              /\ topic' = topic
              /\ max_rounds' = max_rounds
              /\ events'[Len(events')].history = <<>>
              /\ <<current_phase', current_round'>> # <<current_phase, current_round>>
              /\ node' = "proponent"
        /\ \A i \in 1 .. Len(trace') - 1 :
              trace'[i].ran \in TransitionNodes => trace'[i + 1].ran = "proponent" ]_vars

\* each of the three transition nodes has run and the proponent spoke after it
C23_Witness ==
    /\ \A n \in TransitionNodes :
          \E i \in 1 .. Len(trace) - 1 :
              trace[i].ran = n /\ trace[i + 1].ran = "proponent"
    /\ current_phase = "closing"

\* C24: the judge is invoked only in phase closing with the opposition's
\* closing turn as the last entry; its step appends the turn (judge, verdict,
\* round 0) and sets the verdict, so the judge turn is in the transcript
\* exactly when the verdict is set.
C24_JudgeStep ==
    /\ (status = "running" /\ node = "judge") =>
          /\ current_phase = "closing"
          /\ history # <<>>
          /\ history[Len(history)] =
                [role |-> "opposition", phase |-> "closing", round_number |-> 0]
    /\ \A i \in 1 .. Len(history) :
          history[i].role = "judge" =>
              /\ i = Len(history)
              /\ history[i] = [role |-> "judge", phase |-> "verdict", round_number |-> 0]
              /\ verdict # None
    /\ verdict # None => (history # <<>> /\ history[Len(history)].role = "judge")
    /\ \A i \in 1 .. Len(trace) :
          trace[i].ran = "judge" => (i > 1 /\ trace[i - 1].ran = "opposition"
                                           /\ trace[i - 1].phase = "closing")

\* the judge's step done after a generation call that had to retry
C24_Witness ==
    /\ trace # <<>>
    /\ trace[Len(trace)].ran = "judge"
    /\ history[Len(history)].role = "judge"
    /\ verdict # None
    /\ call_attempts > 1

\* the place of a phase in the order of the state machine
PhaseRank(p) ==
    CASE p = "opening" -> 1
      [] p = "rebuttal" -> 2
      [] p = "closing" -> 3
      [] p = "verdict" -> 4
      [] p = "complete" -> 5

\* C25 as stated: in a completed run current_phase takes the values opening,
\* rebuttal, closing, verdict, complete in that order and never goes back;
\* the state with current_phase = verdict is followed by the step to
\* complete that ends the run.
C25_PhaseSequence ==
    status = "returned" =>
        /\ \A i, j \in 1 .. Len(trace) :
              i <= j => PhaseRank(trace[i].phase) <= PhaseRank(trace[j].phase)
        /\ \A p \in {"opening", "rebuttal", "closing", "verdict", "complete"} :
              \E i \in 1 .. Len(trace) : trace[i].phase = p
        /\ \A i \in 1 .. Len(trace) - 1 :
              trace[i].phase = "verdict" => trace[i + 1].phase = "complete"

\* C27: the first attempt that returns ends the call at once with its
\* result: the node is left, no delay is slept after it; no delay is slept
\* after the final failed attempt either, so a call sleeps once per failed
\* attempt that is followed by another.
C27_SuccessEndsLoop ==
    [][ (status = "running" /\ node \in AgentNodes) =>
          /\ last_outcome'.kind = "ok" =>
                /\ sleeps' = SleepLog
                /\ Len(sleeps') = call_attempts' - 1
                /\ call_attempts' = attempt + 1
                /\ raw_response' = last_outcome'.val
                /\ attempt' = 0
                /\ node' # node
                /\ Len(history') = Len(history) + 1
          /\ status' = "raised" =>
                /\ sleeps' = SleepLog
                /\ Len(sleeps') = max_retries ]_vars

\* a call that returned on its third attempt, two delays slept
C27_Witness ==
    /\ last_outcome.kind = "ok"
    /\ call_attempts = 3
    /\ Len(sleeps) = 2
    /\ attempt = 0
    /\ max_retries = MAX_RETRIES

\* C30: a proponent or opposition step appends exactly one turn, with the
\* speaker's role and the state's phase and round at invocation, and leaves
\* current_phase, current_round, verdict, topic and max_rounds unchanged.
C30_SpeakerFrame ==
    [][ (/\ status = "running"
         /\ node \in {"proponent", "opposition"}
         /\ last_outcome'.kind = "ok") =>
            /\ history' = Append(history, [role |-> node,
                                           phase |-> current_phase,
                                           round_number |-> current_round])
            /\ current_phase' = current_phase
            /\ current_round' = current_round
            /\ verdict' = verdict
            /\ topic' = topic
            /\ max_rounds' = max_rounds ]_vars

\* the opposition has just spoken in the second rebuttal round
C30_Witness ==
    /\ status = "running"
    /\ trace # <<>>
    /\ trace[Len(trace)].ran = "opposition"
    /\ history[Len(history)] =
          [role |-> "opposition", phase |-> "rebuttal", round_number |-> 2]
    /\ current_phase = "rebuttal"
    /\ current_round = 2

-----------------------------------------------------------------------------
(* Pattern order *)

\* the two patterns of extract_confidence_from_text, in the order of the list
ConfidenceAt(k, c, i) ==
    IF k = 1 THEN ConfidenceBoldAt(c, i) ELSE ConfidenceColonAt(c, i)

\* where in the lowered text c winner pattern k / confidence pattern k matches
WinnerHits(k, c) == {i \in 1 .. Len(c) : WinnerAt(k, c, i) # None}
ConfidenceHits(k, c) == {i \in 1 .. Len(c) : ConfidenceAt(k, c, i) # None}

Least(S) == CHOOSE x \in S : \A y \in S : x <= y

\* C26: winner extraction returns the token of the first pattern, in list
\* order, that matches anywhere in the lowered text (its leftmost match),
\* whatever later patterns match and wherever; confidence extraction does the
\* same over its two patterns.
C26_PatternOrder ==
    text_stage = "judged" =>
        LET c == LowerAll(text_in)
        IN /\ \A k \in 1 .. 4 :
                 (WinnerHits(k, c) # {} /\ \A j \in 1 .. k - 1 : WinnerHits(j, c) = {})
                    => Some(extracted[1].winner) = WinnerAt(k, c, Least(WinnerHits(k, c)))
           /\ \A k \in 1 .. 2 :
                 (ConfidenceHits(k, c) # {}
                    /\ \A j \in 1 .. k - 1 : ConfidenceHits(j, c) = {})
                    => Some(extracted[1].confidence)
                          = ConfidenceAt(k, c, Least(ConfidenceHits(k, c)))

\* the bold pattern matches after a "the winner is" or "declare" phrase that
\* names another winner: the bold pattern's token is the verdict's
C26_Witness ==
    /\ text_stage = "judged"
    /\ LET c == LowerAll(text_in)
       IN \E k \in {3, 4} :
             /\ WinnerHits(1, c) # {}
             /\ WinnerHits(k, c) # {}
             /\ Least(WinnerHits(k, c)) < Least(WinnerHits(1, c))
             /\ WinnerAt(k, c, Least(WinnerHits(k, c))) = Some("tie")
    /\ extracted[1].winner = "proponent"

-----------------------------------------------------------------------------
(* The sentence boundary of truncation and the result of cleaning *)

\* C28 as stated: a text of more than k words is cut to its first k words,
\* and the result ends at the last period of the cut (inclusive) when that
\* period lies at or past 70% of the cut's length; otherwise it is the cut.
C28_PeriodAtOrPast70 ==
    (text_stage = "truncated" /\ count_words(text_in) > text_k) =>
        LET cut == Join(SubSeq(Split(text_in), 1, text_k))
            last_period == rfind(cut, ".")
        IN text_out = IF last_period >= 0 /\ 10 * last_period >= 7 * Len(cut)
                      THEN SubSeq(cut, 1, last_period + 1)
                      ELSE cut

\* C29 as stated: a cleaned text has no leading or trailing whitespace, no
\* carriage return followed by a line feed, and no three consecutive line
\* feeds.
C29_CleanResult ==
    text_stage = "cleaned" =>
        /\ text_out # <<>> =>
              (text_out[1] \notin Whitespace /\ text_out[Len(text_out)] \notin Whitespace)
        /\ \A i \in 1 .. Len(text_out) - 1 :
              ~(text_out[i] = "CR" /\ text_out[i + 1] = "LF")
        /\ \A i \in 1 .. Len(text_out) - 2 :
              ~(text_out[i] = "LF" /\ text_out[i + 1] = "LF" /\ text_out[i + 2] = "LF")

-----------------------------------------------------------------------------
(* What a prompt quotes *)

Speakers == {"proponent", "opposition"}

Opponent(role) == IF role = "proponent" THEN "opposition" ELSE "proponent"

\* C31 as stated: whenever the proponent or the opposition is invoked in the
\* rebuttal or closing phase, the prompt built for it includes the opponent's
\* single most recent turn in full.
C31_OpponentQuoted ==
    [][ (/\ status = "running"
         /\ node \in Speakers
         /\ current_phase \in {"rebuttal", "closing"}) =>
            prompt'.quoted = LastInFull(TurnsOf(history, Opponent(node))) ]_vars

\* C37: a prompt that quotes the opponent quotes the last entry of the
\* transcript at that moment: for the opposition the proponent's turn of the
\* same phase and round, for the proponent in rebuttal round r the
\* opposition's opening turn when r = 1 and its round r-1 turn otherwise.
C37_QuoteIsLastEntry ==
    [][ (status = "running" /\ node \in Speakers /\ prompt'.quoted # None) =>
            /\ history # <<>>
            /\ prompt'.quoted = Some(Quote(history[Len(history)], "full"))
            /\ node = "opposition" =>
                  prompt'.quoted[1].turn =
                      DebateTurn("proponent", current_phase, current_round)
            /\ node = "proponent" =>
                  /\ current_phase = "rebuttal"
                  /\ prompt'.quoted[1].turn =
                        IF current_round = 1
                        THEN DebateTurn("opposition", "opening", 0)
                        ELSE DebateTurn("opposition", "rebuttal", current_round - 1) ]_vars

\* the proponent's prompt of rebuttal round 2, built and sent once without
\* success: it quotes the opposition's round 1 rebuttal
C37_Witness ==
    /\ status = "running"
    /\ node = "proponent"
    /\ attempt > 0
    /\ current_phase = "rebuttal"
    /\ current_round = 2
    /\ prompt.quoted = Some(Quote(DebateTurn("opposition", "rebuttal", 1), "full"))

-----------------------------------------------------------------------------
(* How a run ends *)

\* C36: a run that ends without raising ends through the judge step, with
\* current_phase = complete and a verdict; the opposition is only ever routed
\* from the phases opening, rebuttal and closing, so the fallback route of
\* route_after_opposition to END is never taken.
C36_EndsThroughJudge ==
    /\ status = "returned" =>
          /\ current_phase = "complete"
          /\ verdict # None
          /\ trace # <<>>
          /\ trace[Len(trace)].ran = "judge"
          /\ trace[Len(trace)].next = END
    /\ \A i \in 1 .. Len(trace) :
          trace[i].ran = "opposition" =>
              /\ trace[i].phase \in {"opening", "rebuttal", "closing"}
              /\ trace[i].next # END
    /\ (status = "running" /\ node = "opposition") =>
          current_phase \in {"opening", "rebuttal", "closing"}

\* a two-round debate that returned: the opposition was routed four times,
\* the last time to the judge
C36_Witness ==
    /\ status = "returned"
    /\ max_rounds = 2
    /\ Cardinality({i \in 1 .. Len(trace) : trace[i].ran = "opposition"}) = 4
    /\ trace[Len(trace) - 1].ran = "opposition"
    /\ trace[Len(trace) - 1].next = "judge"
    /\ final_state # None

-----------------------------------------------------------------------------
(* What the incremental mode yields *)

\* C32 as stated: every event yielded by stream_debate carries exactly one
\* new turn, and in a completed run the last event, and only it, also
\* carries the verdict.
C32_EveryEventOneTurn ==
    /\ \A i \in 1 .. Len(events) : Len(events[i].history) = 1
    /\ status = "returned" =>
          /\ events # <<>>
          /\ events[Len(events)].verdict # None
          /\ \A i \in 1 .. Len(events) - 1 : events[i].verdict = None

-----------------------------------------------------------------------------
(* The word limit of a turn *)

\* C33: the content of every proponent and opposition turn has at most
\* max_response_length words, whatever text the generation returned; the
\* judge's turn is not limited.
C33_TurnWithinLimit ==
    text_stage \in {"proponent_turn", "opposition_turn"} =>
        word_count(text_out) <= text_k

\* an opposition turn made of a response longer than the limit and cut to
\* the limit exactly; the judge's turn of the same response exceeds the limit
C33_Witness ==
    /\ text_stage = "opposition_turn"
    /\ count_words(text_in) > text_k
    /\ word_count(text_out) = text_k
    /\ text_k = MaxWords
    /\ word_count(node_content("judge", text_in, text_k)) > text_k

-----------------------------------------------------------------------------
(* Whose max_rounds a run uses *)

\* C34: the rebuttal rounds of a run are the max_rounds argument of
\* run_debate / stream_debate, not the max_rounds of a supplied config: once
\* the run has started the state's max_rounds is the argument, and a run that
\* returns has made that many rounds.
C34_ArgumentIsRounds ==
    status \in {"running", "returned", "raised"} =>
        /\ max_rounds = arg_max_rounds
        /\ \A i \in 1 .. Len(history) : history[i].round_number <= arg_max_rounds
        /\ status = "returned" =>
              Cardinality(InPhase("rebuttal")) = 2 * arg_max_rounds

\* run_debate given a config of 10 rounds and the argument left at 3: the
\* debate returned after 3 rounds
C34_Witness ==
    /\ entry = "run_debate_config"
    /\ cfg_max_rounds = 10
    /\ arg_max_rounds = 3
    /\ status = "returned"
    /\ Len(history) = 11
    /\ history[8].round_number = 3

-----------------------------------------------------------------------------
(* The viewer's in-progress flag *)

\* C35 as stated: whenever run_debate_with_ui has returned, after a completed
\* debate, a debate that raised or a configuration error, the flag
\* debate_in_progress is False.
C35_FlagClearedAfterRun ==
    (entry = "viewer" /\ status \in {"returned", "raised", "rejected"}) =>
        ~debate_in_progress

-----------------------------------------------------------------------------
(* The router against the transition table *)

\* the action of the transition table's row for a phase, round and last
\* role, as the node that performs it; "no row" where the table has none
TableAction(phase, round, maxr, last) ==
    CASE phase = "opening" /\ last = "none" -> "proponent"
      [] phase = "opening" /\ last = "proponent" -> "opposition"
      [] phase = "opening" /\ last = "opposition" -> "start_rebuttal"
      [] phase = "rebuttal" /\ last = "proponent" -> "opposition"
      [] phase = "rebuttal" /\ last = "opposition" /\ round < maxr -> "next_round"
      [] phase = "rebuttal" /\ last = "opposition" /\ round >= maxr -> "start_closing"
      [] phase = "rebuttal" /\ last = "none" -> "proponent"
      [] phase = "closing" /\ last = "none" -> "proponent"
      [] phase = "closing" /\ last = "proponent" -> "opposition"
      [] phase = "closing" /\ last = "opposition" -> "judge"
      [] phase = "verdict" -> "end"
      [] OTHER -> "no row"

\* C38 as stated: for every phase, round, max_rounds and last role that the
\* transition table has a row for, phase_router returns the action of that
\* row, 'speak: proponent' for rebuttal with no last role included.
C38_RouterIsTable ==
    status = "routed" =>
        LET row == TableAction(current_phase, current_round, max_rounds,
                               last_role(history))
        IN row # "no row" => node = row

=============================================================================
